---- MODULE Spec2Model ----
(***************************************************************************)
(* JurisExtract: the Delaware ICIS scraping engine (scrape_de_search) and  *)
(* the /v1/business-search route (search) of src/main.py.                  *)
(*                                                                         *)
(* Every await of the coroutine is one step of the request that runs it.   *)
(* A step either returns or raises; the registry page is a static fixture  *)
(* (site).  calls[r] is the record a test double of the browser API would  *)
(* keep for request r: the API calls made, in order.                       *)
(***************************************************************************)
EXTENDS Integers, Sequences, FiniteSets, TLC

\* ---- bounds -------------------------------------------------------------
NumReq == 2          \* request slots of the server
MaxTr  == 3          \* most <tr> rows of the results table (header included)

Req == 1..NumReq

\* ---- the request inputs -------------------------------------------------
\* q is the only parameter the route declares (main.py:106); any other query
\* parameter of the HTTP request, such as a jurisdiction, is not read.
Queries       == {"", "Tesla"}
Jurisdictions == {"DE", "XX"}
Inputs        == [q : Queries, jurisdiction : Jurisdictions]
NoInput       == [path |-> "-", header |-> "-", q |-> "-", jurisdiction |-> "-"]

\* ---- the HTTP request ---------------------------------------------------
SearchPath  == "/v1/business-search"
ExemptPaths == {"/healthz", "/", "/docs", "/openapi.json"}
Paths       == ExemptPaths \cup {SearchPath}
\* os.getenv gives None when the variable is not set
NoSecret    == "None"
Secrets     == {NoSecret, "", "s3cret"}
\* headers.get gives None when the header is missing
NoHeader    == "None"
Headers     == {NoHeader, "s3cret", "wrong"}
\* the query parameters matter to the search route only
HttpRequests ==
    {h \in [path : Paths, header : Headers, q : Queries, jurisdiction : Jurisdictions] :
        h.path \in ExemptPaths => (h.q = "" /\ h.jurisdiction = "DE")}

\* Passes with the header never compared
PassesUnchecked(path, header, sec) == TRUE

\* verify_rapidapi_request lets the request through to call_next
\* (main.py:27-31); a secret of None or "" is falsy
Passes(path, header, sec) ==
    IF path \in ExemptPaths THEN TRUE
    ELSE ~(sec \notin {NoSecret, ""} /\ header # sec)

\* the bodies of the routes that do no scraping (main.py:124-128; /docs and
\* /openapi.json are served by the framework)
StaticBody(path) ==
    IF path = "/healthz" THEN [status |-> "online"]
    ELSE IF path = "/" THEN [message |-> "JurisExtract API is online."]
    ELSE [document |-> path]

\* ---- the registry page --------------------------------------------------
\* A cell text is a sequence of characters; a row is the texts of its <td>
\* cells; the table is the sequence of its <tr> rows.
W1 == << <<" ", "1">>, <<"A", " ">> >>
W2 == << <<"2">>, <<" ", "B", " ">>, <<"x">> >>
M1 == << <<"3">> >>
RowKinds == {W1, W2, M1}
Tables   == UNION {[1..n -> RowKinds] : n \in 0..MaxTr}

\* table: a table[id*="gvResults"] shows up before the 15 s deadline;
\* noRecords: the page content holds "No Records Found";
\* block: the page content holds a block/challenge phrase.
Sites == {s \in [table : BOOLEAN, rows : Tables, noRecords : BOOLEAN, block : BOOLEAN] :
             (~s.table) => s.rows = <<>>}

\* ---- pure helpers -------------------------------------------------------
RECURSIVE LStrip(_)
LStrip(s) == IF s # <<>> /\ Head(s) = " " THEN LStrip(Tail(s)) ELSE s

RECURSIVE RStrip(_)
RStrip(s) == IF s # <<>> /\ s[Len(s)] = " " THEN RStrip(SubSeq(s, 1, Len(s) - 1)) ELSE s

\* str.strip()
Strip(s) == RStrip(LStrip(s))

\* the dict appended for one row (main.py:79-84)
MakeRecord(cells) ==
    [file_number |-> Strip(cells[1]), entity_name |-> Strip(cells[2]),
     status |-> "Found", state |-> "DE"]

\* SkipHeader with the header row kept (for row in rows)
SkipHeaderKept(rows) == rows

\* rows[1:]
SkipHeader(rows) == IF rows = <<>> THEN <<>> ELSE Tail(rows)

\* ExtractFrom giving up at the first row with fewer than two cells
RECURSIVE ExtractFromAborting(_, _)
ExtractFromAborting(rows, results) ==
    IF rows = <<>> \/ Len(Head(rows)) < 2 THEN results
    ELSE ExtractFromAborting(Tail(rows), Append(results, MakeRecord(Head(rows))))

\* the for loop of main.py:76-84
RECURSIVE ExtractFrom(_, _)
ExtractFrom(rows, results) ==
    IF rows = <<>> THEN results
    ELSE LET cells == Head(rows) IN
         ExtractFrom(Tail(rows),
                     IF Len(cells) >= 2 THEN Append(results, MakeRecord(cells))
                     ELSE results)

\* main.py:72-85
ExtractRows(rows) == ExtractFrom(SkipHeader(rows), <<>>)

BlockedMsg == "Search timed out or was blocked by the registry."

\* str(e) of the exception raised by an API call
ExcMsg(call) == call

ErrorList(msg) == << [error |-> msg] >>

\* ClassifyContent without the look for "No Records Found"
ClassifyContentNoPhrase(s) == ErrorList(BlockedMsg)

\* main.py:89-93, on the page content
ClassifyContent(s) ==
    IF s.noRecords THEN <<>> ELSE ErrorList(BlockedMsg)

\* main.py:112
IsErrorData(data) == data # <<>> /\ "error" \in DOMAIN data[1]

\* BuildResponse with status "success" for every list without an error
BuildResponseAlwaysSuccess(query, data) ==
    IF IsErrorData(data)
    THEN [status |-> "error", message |-> data[1].error, results |-> <<>>]
    ELSE [query |-> query, count |-> Len(data), status |-> "success", results |-> data]

\* main.py:112-120
BuildResponse(query, data) ==
    IF IsErrorData(data)
    THEN [status |-> "error", message |-> data[1].error, results |-> <<>>]
    ELSE [query |-> query, count |-> Len(data),
          status |-> IF data # <<>> THEN "success" ELSE "no_results",
          results |-> data]

NoResp == [status |-> "none"]
NoData == << [unset |-> TRUE] >>

\* ---- state --------------------------------------------------------------
VARIABLES
    load,          \* number of requests the clients issue in this behaviour
    secret,        \* RAPID_SECRET, read from the environment at start-up
    traffic,       \* the HTTP requests the clients send in this behaviour
    site,          \* the registry page
    pc,            \* position of each request's coroutine
    req,           \* the HTTP request's parameters
    browser,       \* local variable browser (0: unbound)
    context,       \* local variable context
    page,          \* local variable page
    nextId,        \* next browser the engine hands out
    openBrowsers,  \* browsers launched and not closed
    openContexts,  \* contexts created and not closed
    openPages,     \* pages created and not closed
    data,          \* value scrape_de_search returns
    exc,           \* exception in flight ("none": none)
    resp,          \* body the route returns
    calls,         \* browser API calls made by the request, in order
    raised         \* the calls of the request that raised

vars == <<load, secret, traffic, site, pc, req, browser, context, page, nextId,
          openBrowsers, openContexts, openPages, data, exc, resp, calls, raised>>

InitRequests ==
    /\ pc = [r \in Req |-> "idle"]
    /\ req = [r \in Req |-> NoInput]
    /\ browser = [r \in Req |-> 0]
    /\ context = [r \in Req |-> 0]
    /\ page = [r \in Req |-> 0]
    /\ nextId = 1
    /\ openBrowsers = {}
    /\ openContexts = {}
    /\ openPages = {}
    /\ data = [r \in Req |-> NoData]
    /\ exc = [r \in Req |-> "none"]
    /\ resp = [r \in Req |-> NoResp]
    /\ calls = [r \in Req |-> <<>>]
    /\ raised = [r \in Req |-> {}]

\* one request at a time
Init ==
    /\ load = 1
    /\ secret \in Secrets
    /\ traffic = HttpRequests
    /\ site \in Sites
    /\ InitRequests

Called(r, call) == calls' = [calls EXCEPT ![r] = Append(@, call)]

Raises(r, call) == raised' = [raised EXCEPT ![r] = @ \cup {call}]

\* Caught with no finally clause: the list is returned at once
CaughtNoFinally(r, call) ==
    /\ Raises(r, call)
    /\ data' = [data EXCEPT ![r] = ErrorList(ExcMsg(call))]
    /\ pc' = [pc EXCEPT ![r] = "exit_pw"]

\* Caught with one more attempt of a call that raised for the first time
CaughtRetry(r, call) ==
    /\ Raises(r, call)
    /\ IF \E i \in 1..Len(calls[r]) : calls[r][i] = call
       THEN /\ data' = [data EXCEPT ![r] = ErrorList(ExcMsg(call))]
            /\ pc' = [pc EXCEPT ![r] = "close"]
       ELSE UNCHANGED <<data, pc>>

\* an API call inside the try block raised: main.py:95-96, then finally
Caught(r, call) ==
    /\ Raises(r, call)
    /\ data' = [data EXCEPT ![r] = ErrorList(ExcMsg(call))]
    /\ pc' = [pc EXCEPT ![r] = "close"]

\* an API call before the try block raised: leaves through the async with
Escapes(r, call) ==
    /\ Raises(r, call)
    /\ exc' = [exc EXCEPT ![r] = ExcMsg(call)]
    /\ pc' = [pc EXCEPT ![r] = "exit_pw"]

\* main.py:25-31: the middleware sees the request first and either hands it
\* to call_next or raises HTTPException(403)
Arrive(r) ==
    /\ pc[r] = "idle"
    /\ r <= load
    /\ \E h \in traffic :
          /\ req' = [req EXCEPT ![r] = h]
          /\ pc' = [pc EXCEPT ![r] =
                       IF Passes(h.path, h.header, secret)
                       THEN (IF h.path = SearchPath THEN "handler" ELSE "static")
                       ELSE "rejected"]
    /\ UNCHANGED <<load, secret, traffic, site, browser, context, page, nextId, openBrowsers,
                   openContexts, openPages, data, exc, resp, calls, raised>>

\* main.py:124-128: the routes that do no scraping
Static(r) ==
    /\ pc[r] = "static"
    /\ resp' = [resp EXCEPT ![r] = StaticBody(req[r].path)]
    /\ pc' = [pc EXCEPT ![r] = "served"]
    /\ UNCHANGED <<load, secret, traffic, site, req, browser, context, page, nextId, openBrowsers,
                   openContexts, openPages, data, exc, calls, raised>>

\* GET /v1/business-search?q=...: search calls scrape_de_search(q)
Receive(r) ==
    /\ pc[r] = "handler"
    /\ req[r].q \in Queries
    /\ pc' = [pc EXCEPT ![r] = "launch"]
    /\ UNCHANGED <<load, secret, traffic, site, req, browser, context, page, nextId, openBrowsers,
                   openContexts, openPages, data, exc, resp, calls, raised>>

\* main.py:36-41
Launch(r) ==
    /\ pc[r] = "launch"
    /\ Called(r, "launch")
    /\ \/ /\ browser' = [browser EXCEPT ![r] = nextId]
          /\ nextId' = nextId + 1
          /\ openBrowsers' = openBrowsers \cup {nextId}
          /\ pc' = [pc EXCEPT ![r] = "new_context"]
          /\ UNCHANGED <<exc, raised>>
       \/ /\ Escapes(r, "launch")
          /\ UNCHANGED <<browser, nextId, openBrowsers>>
    /\ UNCHANGED <<load, secret, traffic, site, req, context, page, openContexts, openPages, data, resp>>

\* main.py:42-44
NewContext(r) ==
    /\ pc[r] = "new_context"
    /\ Called(r, "new_context")
    /\ \/ /\ context' = [context EXCEPT ![r] = browser[r]]
          /\ openContexts' = openContexts \cup {browser[r]}
          /\ pc' = [pc EXCEPT ![r] = "new_page"]
          /\ UNCHANGED <<exc, raised>>
       \/ /\ Escapes(r, "new_context")
          /\ UNCHANGED <<context, openContexts>>
    /\ UNCHANGED <<load, secret, traffic, site, req, browser, page, nextId, openBrowsers, openPages, data, resp>>

\* main.py:45
NewPage(r) ==
    /\ pc[r] = "new_page"
    /\ Called(r, "new_page")
    /\ \/ /\ page' = [page EXCEPT ![r] = context[r]]
          /\ openPages' = openPages \cup {context[r]}
          /\ pc' = [pc EXCEPT ![r] = "goto"]
          /\ UNCHANGED <<exc, raised>>
       \/ /\ Escapes(r, "new_page")
          /\ UNCHANGED <<page, openPages>>
    /\ UNCHANGED <<load, secret, traffic, site, req, browser, context, nextId, openBrowsers, openContexts, data, resp>>

\* an awaited page call inside the try block: returns, or raises to main.py:95
PageCall(r, at, call, next) ==
    /\ pc[r] = at
    /\ page[r] \in openPages
    /\ Called(r, call)
    /\ \/ /\ pc' = [pc EXCEPT ![r] = next]
          /\ UNCHANGED <<data, raised>>
       \/ Caught(r, call)
    /\ UNCHANGED <<load, secret, traffic, site, req, browser, context, page, nextId, openBrowsers,
                   openContexts, openPages, exc, resp>>

\* main.py:50
Goto(r) == PageCall(r, "goto", "goto", "wait_for")

\* WaitFor with the exception of wait_for swallowed: the flow goes on
WaitForSwallowed(r) ==
    /\ pc[r] = "wait_for"
    /\ page[r] \in openPages
    /\ Called(r, "wait_for")
    /\ \/ UNCHANGED raised
       \/ Raises(r, "wait_for")
    /\ pc' = [pc EXCEPT ![r] = "click"]
    /\ UNCHANGED <<load, secret, traffic, site, req, browser, context, page, nextId, openBrowsers,
                   openContexts, openPages, data, exc, resp>>

\* main.py:54-55
WaitFor(r) == PageCall(r, "wait_for", "wait_for", "click")

\* main.py:58
Click(r) == PageCall(r, "click", "click", "fill")

\* main.py:59
Fill(r) == PageCall(r, "fill", "fill", "sleep")

\* main.py:60
Sleep(r) ==
    /\ pc[r] = "sleep"
    /\ pc' = [pc EXCEPT ![r] = "submit"]
    /\ UNCHANGED <<load, secret, traffic, site, req, browser, context, page, nextId, openBrowsers,
                   openContexts, openPages, data, exc, resp, calls, raised>>

\* main.py:63-64
Submit(r) == PageCall(r, "submit", "submit", "wait_for_selector")

\* main.py:69-70: returns when the table shows up; a timeout or any other
\* exception goes to the handler of main.py:87
WaitForSelector(r) ==
    /\ pc[r] = "wait_for_selector"
    /\ page[r] \in openPages
    /\ Called(r, "wait_for_selector")
    /\ \/ /\ site.table
          /\ pc' = [pc EXCEPT ![r] = "rows"]
          /\ UNCHANGED raised
       \/ /\ Raises(r, "wait_for_selector")
          /\ pc' = [pc EXCEPT ![r] = "content"]
    /\ UNCHANGED <<load, secret, traffic, site, req, browser, context, page, nextId, openBrowsers,
                   openContexts, openPages, data, exc, resp>>

\* ReadRows appending to a results list kept across requests
ReadRowsShared(r) ==
    /\ pc[r] = "rows"
    /\ page[r] \in openPages
    /\ Called(r, "rows")
    /\ LET prior == {o \in Req \ {r} : data[o] # NoData /\ ~IsErrorData(data[o])}
           kept  == IF prior = {} THEN <<>> ELSE data[CHOOSE o \in prior : TRUE]
       IN data' = [data EXCEPT ![r] = kept \o ExtractRows(site.rows)]
    /\ pc' = [pc EXCEPT ![r] = "close"]
    /\ UNCHANGED <<load, secret, traffic, site, req, browser, context, page, nextId, openBrowsers,
                   openContexts, openPages, exc, resp, raised>>

\* main.py:72-85: returns the records; an exception goes to main.py:87
ReadRows(r) ==
    /\ pc[r] = "rows"
    /\ page[r] \in openPages
    /\ Called(r, "rows")
    /\ \/ /\ data' = [data EXCEPT ![r] = ExtractRows(site.rows)]
          /\ pc' = [pc EXCEPT ![r] = "close"]
          /\ UNCHANGED raised
       \/ /\ Raises(r, "rows")
          /\ pc' = [pc EXCEPT ![r] = "content"]
          /\ UNCHANGED data
    /\ UNCHANGED <<load, secret, traffic, site, req, browser, context, page, nextId, openBrowsers,
                   openContexts, openPages, exc, resp>>

\* main.py:87-93: an exception of page.content() goes to main.py:95
Content(r) ==
    /\ pc[r] = "content"
    /\ page[r] \in openPages
    /\ Called(r, "content")
    /\ \/ /\ data' = [data EXCEPT ![r] = ClassifyContent(site)]
          /\ pc' = [pc EXCEPT ![r] = "close"]
          /\ UNCHANGED raised
       \/ Caught(r, "content")
    /\ UNCHANGED <<load, secret, traffic, site, req, browser, context, page, nextId, openBrowsers,
                   openContexts, openPages, exc, resp>>

\* Close on one browser shared by all requests: every session goes
CloseShared(r) ==
    /\ pc[r] = "close"
    /\ Called(r, "close")
    /\ openBrowsers' = {}
    /\ openContexts' = {}
    /\ openPages' = {}
    /\ pc' = [pc EXCEPT ![r] = "exit_pw"]
    /\ UNCHANGED <<load, secret, traffic, site, req, browser, context, page, nextId, data, exc, resp, raised>>

\* main.py:97-98: closing a browser closes its contexts and pages
Close(r) ==
    /\ pc[r] = "close"
    /\ Called(r, "close")
    /\ openBrowsers' = openBrowsers \ {browser[r]}
    /\ openContexts' = openContexts \ {browser[r]}
    /\ openPages' = openPages \ {browser[r]}
    /\ pc' = [pc EXCEPT ![r] = "exit_pw"]
    /\ UNCHANGED <<load, secret, traffic, site, req, browser, context, page, nextId, data, exc, resp, raised>>

\* main.py:36 (leaving the async with), then main.py:109-120: search builds
\* the response from the returned list, or the exception leaves search.
\* Leaving the async with stops the Playwright driver; it makes no
\* browser.close() call, so the open sets are left as they are.
Respond(r) ==
    /\ pc[r] = "exit_pw"
    /\ IF exc[r] = "none"
       THEN /\ resp' = [resp EXCEPT ![r] = BuildResponse(req[r].q, data[r])]
            /\ pc' = [pc EXCEPT ![r] = "done"]
       ELSE /\ pc' = [pc EXCEPT ![r] = "raised"]
            /\ UNCHANGED resp
    /\ UNCHANGED <<load, secret, traffic, site, req, browser, context, page, nextId, openBrowsers,
                   openContexts, openPages, data, exc, calls, raised>>

Next ==
    \E r \in Req :
        \/ Arrive(r)
        \/ Static(r)
        \/ Receive(r)
        \/ Launch(r)
        \/ NewContext(r)
        \/ NewPage(r)
        \/ Goto(r)
        \/ WaitFor(r)
        \/ Click(r)
        \/ Fill(r)
        \/ Sleep(r)
        \/ Submit(r)
        \/ WaitForSelector(r)
        \/ ReadRows(r)
        \/ Content(r)
        \/ Close(r)
        \/ Respond(r)

Spec == Init /\ [][Next]_vars

\* ---- concurrent requests ------------------------------------------------
\* Every slot takes a request and the coroutines interleave at their awaits.
\* The clients send a search that passes the middleware, one that does not,
\* and a health probe; the page has a table of two data rows under its header, or no table and the no-records phrase.
ConcTraffic ==
    {[path |-> SearchPath, header |-> "s3cret", q |-> "Tesla", jurisdiction |-> "DE"],
     [path |-> SearchPath, header |-> "wrong", q |-> "Tesla", jurisdiction |-> "DE"],
     [path |-> "/healthz", header |-> NoHeader, q |-> "", jurisdiction |-> "DE"]}

ConcSites ==
    {[table |-> TRUE, rows |-> <<M1, W1, W2>>, noRecords |-> FALSE, block |-> FALSE],
     [table |-> FALSE, rows |-> <<>>, noRecords |-> TRUE, block |-> FALSE]}

InitConc ==
    /\ load = NumReq
    /\ secret = "s3cret"
    /\ traffic = ConcTraffic
    /\ site \in ConcSites
    /\ InitRequests

SpecConc == InitConc /\ [][Next]_vars

TypeOK ==
    /\ load \in 1..NumReq
    /\ secret \in Secrets
    /\ traffic \subseteq HttpRequests
    /\ site \in Sites
    /\ nextId \in 1..(NumReq + 1)
    /\ openContexts \subseteq openBrowsers
    /\ openPages \subseteq openContexts

\* ---- reading the outcome ------------------------------------------------
\* The outcome kinds of the specification, read off the body the route
\* returns.  The code's only block indication is the fixed message of
\* main.py:93; every other error message is the text of an exception.
Returned(r)         == pc[r] = "done"
Finished(r)         == pc[r] \in {"done", "raised"}
IsSuccess(r)        == Returned(r) /\ resp[r].status = "success"
IsNoResults(r)      == Returned(r) /\ resp[r].status = "no_results"
IsBlocked(r)        == Returned(r) /\ resp[r].status = "error" /\ resp[r].message = BlockedMsg
IsTransientError(r) == Returned(r) /\ resp[r].status = "error" /\ resp[r].message # BlockedMsg

Did(r, call)   == \E i \in 1..Len(calls[r]) : calls[r][i] = call
\* the call was made and returned
Ok(r, call)    == Did(r, call) /\ call \notin raised[r]
\* the page after submission was inspected with no results table on it
NoTablePage(r) == Returned(r) /\ ~site.table /\ Ok(r, "content")

Spaces(n) == [i \in 1..n |-> " "]
\* t is s without its surrounding blanks
IsTrimOf(t, s) ==
    /\ t = <<>> \/ (t[1] # " " /\ t[Len(t)] # " ")
    /\ \E i, j \in 0..Len(s) : s = Spaces(i) \o t \o Spaces(j)

WellFormed(cells) == Len(cells) >= 2
\* record rec carries the first two cells of the row
RecordOf(rec, cells) ==
    /\ IsTrimOf(rec.file_number, cells[1])
    /\ IsTrimOf(rec.entity_name, cells[2])

Supported == {"DE"}
BadRequest(r) == req[r].q = "" \/ req[r].jurisdiction \notin Supported

\* ---- C1 -----------------------------------------------------------------
\* C1: for a non-empty query, a page with no results table and a block
\* phrase gives Blocked, never Success or NoResults, also when the page
\* holds the no-records phrase as well.
C1_BlockPhraseWins ==
    \A r \in Req :
        (NoTablePage(r) /\ req[r].q # "" /\ site.block)
            => (IsBlocked(r) /\ ~IsSuccess(r) /\ ~IsNoResults(r))

\* ---- C2 -----------------------------------------------------------------
\* C2: with no table and neither phrase on the page the outcome is
\* TransientError, and it is not the Blocked outcome.
C2_TimeoutIsTransient ==
    \A r \in Req :
        (NoTablePage(r) /\ ~site.block /\ ~site.noRecords)
            => (IsTransientError(r) /\ ~IsBlocked(r))

\* ---- C3 -----------------------------------------------------------------
\* C3: when search ends, whatever step failed, the browser the request
\* launched has been released and none of its browser, context or page is
\* left open.
C3_ReleasedOnEveryExit ==
    \A r \in Req :
        (Finished(r) /\ Ok(r, "launch"))
            => (Did(r, "close") /\ browser[r] \notin openBrowsers
                /\ context[r] \notin openContexts /\ page[r] \notin openPages)

\* ---- C4 -----------------------------------------------------------------
\* C4: no exception leaves search; a failure of the engine launch, of the
\* context or page creation or of a later step gives a TransientError body.
C4_NoFaultEscapes ==
    \A r \in Req :
        /\ pc[r] # "raised"
        /\ (Returned(r) /\ raised[r] \ {"wait_for_selector"} # {}) => IsTransientError(r)

\* ---- C5 -----------------------------------------------------------------
\* C5: once the results table has shown up before the deadline the outcome
\* is Success, whatever phrase the page holds.
C5_TableWins ==
    \A r \in Req :
        (Returned(r) /\ Ok(r, "wait_for_selector")) => IsSuccess(r)

\* ---- C6 -----------------------------------------------------------------
\* C6: for a non-empty query, a page with no results table and only the
\* no-records phrase gives NoResults with an empty record list.
C6_NoRecordsPage ==
    \A r \in Req :
        (NoTablePage(r) /\ req[r].q # "" /\ site.noRecords /\ ~site.block)
            => (IsNoResults(r) /\ resp[r].results = <<>> /\ resp[r].count = 0)

C6_Witness ==
    \E r \in Req : NoTablePage(r) /\ req[r].q # "" /\ site.noRecords /\ ~site.block

\* ---- C7 -----------------------------------------------------------------
\* the table is a header row followed by N >= 1 well-formed data rows, and
\* its rows were read
HeaderAndWellFormed(r) ==
    /\ Returned(r) /\ Ok(r, "rows")
    /\ Len(site.rows) >= 2
    /\ \A i \in 2..Len(site.rows) : WellFormed(site.rows[i])

\* C7: a header row followed by N >= 1 well-formed data rows gives Success
\* with exactly N records: record i is data row i (the header is left out,
\* equal rows are kept), first cell as file number, second as entity name.
C7_OneRecordPerRow ==
    \A r \in Req :
        HeaderAndWellFormed(r)
            => /\ IsSuccess(r)
               /\ Len(resp[r].results) = Len(site.rows) - 1
               /\ resp[r].count = Len(site.rows) - 1
               /\ \A i \in 1..(Len(site.rows) - 1) :
                      RecordOf(resp[r].results[i], site.rows[i + 1])

\* two data rows, in an order that shows, and a table with a row twice
C7_Witness ==
    \E r \in Req :
        /\ HeaderAndWellFormed(r)
        /\ Len(site.rows) >= 3
        /\ site.rows[2] = site.rows[3]
        /\ site.rows[1] # site.rows[2]

\* ---- C8 -----------------------------------------------------------------
\* the well-formed data rows, in table order
GoodRows(rows) == SelectSeq(SkipHeader(rows), WellFormed)

\* C8: whenever the rows of the table are read, the record list is the
\* well-formed data rows in their order: rows with fewer than two cells are
\* left out and nothing else is.
C8_MalformedRowsSkipped ==
    \A r \in Req :
        (Returned(r) /\ Ok(r, "rows"))
            => /\ resp[r].status \in {"success", "no_results"}
               /\ Len(resp[r].results) = Len(GoodRows(site.rows))
               /\ \A i \in 1..Len(GoodRows(site.rows)) :
                      RecordOf(resp[r].results[i], GoodRows(site.rows)[i])

\* a malformed data row ahead of a well-formed one
C8_Witness ==
    \E r \in Req :
        /\ Returned(r) /\ Ok(r, "rows")
        /\ Len(site.rows) >= 3
        /\ ~WellFormed(site.rows[2])
        /\ WellFormed(site.rows[3])
        /\ Len(resp[r].results) = Len(site.rows) - 2

\* ---- C9 -----------------------------------------------------------------
\* C9: when the wait for the name field raises, the submit control is never
\* activated in that request, no exception leaves search and the body
\* returned is a TransientError.
C9_NoSubmitWithoutField ==
    \A r \in Req :
        ("wait_for" \in raised[r])
            => /\ ~Did(r, "submit")
               /\ ~Did(r, "fill")
               /\ pc[r] # "raised"
               /\ Returned(r) => IsTransientError(r)

C9_Witness ==
    \E r \in Req : "wait_for" \in raised[r] /\ Returned(r)

\* ---- C10 ----------------------------------------------------------------
\* C10: a request with an empty query or an unsupported jurisdiction makes
\* no browser call at all: no engine launch, no navigation.
C10_FailFast ==
    \A r \in Req :
        (pc[r] # "idle" /\ BadRequest(r)) => calls[r] = <<>>

\* ---- C11 ----------------------------------------------------------------
KindsOf(r) ==
    {k \in {"Success", "NoResults", "Blocked", "TransientError"} :
        \/ k = "Success" /\ IsSuccess(r)
        \/ k = "NoResults" /\ IsNoResults(r)
        \/ k = "Blocked" /\ IsBlocked(r)
        \/ k = "TransientError" /\ IsTransientError(r)}

\* C11: every search request that has ended produced exactly one of
\* Success, NoResults, Blocked and TransientError, and never records
\* together with an error or block indication.
C11_ExactlyOneVariant ==
    \A r \in Req :
        Finished(r)
            => /\ Cardinality(KindsOf(r)) = 1
               /\ ~(IsSuccess(r) /\ IsBlocked(r))
               /\ resp[r].status = "error" => resp[r].results = <<>>

\* ---- C12 ----------------------------------------------------------------
SessionCreated(r) == Ok(r, "new_page")

\* C12: in a request whose session was created, once scrape_de_search has
\* its outcome ready to return, and from then on, the browser has been
\* closed: close is the last browser call and nothing of the session is open.
C12_ReleaseBeforeReturn ==
    \A r \in Req :
        (SessionCreated(r) /\ pc[r] \in {"exit_pw", "done", "raised"})
            => /\ calls[r][Len(calls[r])] = "close"
               /\ browser[r] \notin openBrowsers
               /\ context[r] \notin openContexts
               /\ page[r] \notin openPages
               /\ pc[r] # "raised"

\* the outcome is a caught exception
C12_Witness ==
    \E r \in Req : SessionCreated(r) /\ Returned(r) /\ IsTransientError(r)

\* ---- C13 ----------------------------------------------------------------
InFlight(r) ==
    pc[r] \in {"goto", "wait_for", "click", "fill", "sleep", "submit",
               "wait_for_selector", "rows", "content", "close"}

\* C13: under any interleaving, no two requests hold the same browser,
\* context or page, and the session of a request that is between page
\* creation and its own close is open: no other request's release closed it.
C13_SessionsIsolated ==
    /\ \A r1, r2 \in Req :
          (r1 # r2 /\ browser[r1] # 0) =>
              /\ browser[r1] # browser[r2]
              /\ context[r1] # 0 => context[r1] # context[r2]
              /\ page[r1] # 0 => page[r1] # page[r2]
    /\ \A r \in Req :
          InFlight(r) => /\ browser[r] \in openBrowsers
                         /\ context[r] \in openContexts
                         /\ page[r] \in openPages

\* one request has released its session while another is still using its own
C13_Witness ==
    \E r1, r2 \in Req :
        /\ r1 # r2
        /\ Did(r1, "close") /\ SessionCreated(r1)
        /\ InFlight(r2) /\ pc[r2] # "close"

\* ---- C14 ----------------------------------------------------------------
SuspensionCalls == {"launch", "goto", "wait_for", "submit", "wait_for_selector"}

\* C14: a request in which a suspension point exceeded its deadline (the
\* call raised) ends by returning a classified outcome, not with a fault.
C14_DeadlinesClassified ==
    \A r \in Req :
        (Finished(r) /\ raised[r] \cap SuspensionCalls # {})
            => (Returned(r) /\ Cardinality(KindsOf(r)) = 1)

\* ---- C15 ----------------------------------------------------------------
Count(r, call) == Cardinality({i \in 1..Len(calls[r]) : calls[r][i] = call})

\* C15: within one search call no browser call is made twice: one launch,
\* one navigation, one submit at most, and a call that raised is not made
\* again.
C15_NoRetry ==
    \A r \in Req :
        \A i, j \in 1..Len(calls[r]) : calls[r][i] = calls[r][j] => i = j

\* a navigation that failed, in a request that has ended
C15_Witness ==
    \E r \in Req : Returned(r) /\ "goto" \in raised[r] /\ Count(r, "goto") = 1

\* ---- C16 ----------------------------------------------------------------
\* C16: two searches with the same query on the same page, with the same
\* calls failing, return equal bodies: the same records in the same order.
C16_SameQuerySameRecords ==
    \A r1, r2 \in Req :
        (Returned(r1) /\ Returned(r2) /\ req[r1].q = req[r2].q /\ raised[r1] = raised[r2])
            => resp[r1] = resp[r2]

\* two searches that both returned records
C16_Witness ==
    \E r1, r2 \in Req :
        /\ r1 # r2
        /\ IsSuccess(r1) /\ IsSuccess(r2)
        /\ req[r1].q = req[r2].q
        /\ Len(resp[r1].results) >= 2

\* ---- C17 ----------------------------------------------------------------
\* C17: a request navigates only after the script that hides the
\* automation property was installed on its context.
C17_HookBeforeNavigation ==
    \A r \in Req :
        \A i \in 1..Len(calls[r]) :
            calls[r][i] = "goto"
                => \E j \in 1..(i - 1) : calls[r][j] = "add_init_script"

\* ---- C18 ----------------------------------------------------------------
\* C18: the body follows the list scrape_de_search returned: records give
\* status "success" with the list and its length as count; an empty list
\* gives "no_results" with no results; an error gives no results; status is
\* "success" exactly when results is non-empty, so a table with no
\* well-formed data row is answered as "no_results".
C18_ResponseReflectsOutcome ==
    \A r \in Req :
        Returned(r)
            => /\ resp[r].status \in {"success", "no_results", "error"}
               /\ (resp[r].status = "success") <=> (resp[r].results # <<>>)
               /\ resp[r].status = "success"
                    => (resp[r].results = data[r] /\ resp[r].count = Len(data[r]))
               /\ resp[r].status = "no_results"
                    => (data[r] = <<>> /\ resp[r].count = 0)
               /\ resp[r].status = "error" => IsErrorData(data[r])
               /\ (Ok(r, "rows") /\ GoodRows(site.rows) = <<>>)
                    => resp[r].status = "no_results"

\* a table was found and read, and none of its data rows is well-formed
C18_Witness ==
    \E r \in Req :
        /\ Returned(r) /\ Ok(r, "rows")
        /\ Len(site.rows) >= 2
        /\ GoodRows(site.rows) = <<>>

\* ---- C19 ----------------------------------------------------------------
Configured == secret \notin {NoSecret, ""}
Arrived(r) == pc[r] # "idle"

\* C19: with a secret configured, a request to a path outside the four
\* exempt ones whose header is missing or differs from the secret is turned
\* away before the route runs and makes no browser call; a request to an
\* exempt path is never turned away, and none is when no secret is set.
C19_ProxySecretGate ==
    \A r \in Req :
        Arrived(r)
            => /\ (Configured /\ req[r].path \notin ExemptPaths /\ req[r].header # secret)
                    => (pc[r] = "rejected" /\ calls[r] = <<>> /\ resp[r] = NoResp)
               /\ req[r].path \in ExemptPaths => pc[r] # "rejected"
               /\ ~Configured => pc[r] # "rejected"

\* a search without the header, turned away
C19_Witness ==
    \E r \in Req :
        /\ pc[r] = "rejected"
        /\ req[r].path = SearchPath
        /\ req[r].header = NoHeader

====
